---- MODULE Spec2Model ----
(***************************************************************************)
(* Gmail-Reception: the scan, the session and the card actions of          *)
(* content-script.js.                                                      *)
(*                                                                         *)
(* scoreRecentEmails fetches the window of recent unread messages, seeds   *)
(* one pending AnalysisResult per message, and scores the window in        *)
(* batches of BATCH_SIZE through aiSession.prompt.  After the seed and     *)
(* after every batch it hands the accumulated array to the sink            *)
(* (handleBatchProcessing -> renderEmails), which sorts that same array in *)
(* place and rebuilds the cards.                                           *)
(*                                                                         *)
(* A message is represented by its id; the ids of a window are 1..n in     *)
(* fetch order (the list endpoint returns distinct refs).  Headers and     *)
(* snippet only feed the prompt text and are not part of the state.  The   *)
(* inference service honours responseConstraint: a prompt either rejects,  *)
(* returns text that does not parse, or returns an array of entries with   *)
(* the six required fields; ids and scores of the entries are whatever the *)
(* service chooses.                                                        *)
(*                                                                         *)
(* Spec is the scoring scan of a signed-in session with a fresh profile.   *)
(* SessionSpec is the whole panel: sign-in, sign-out, the profile stage of *)
(* analyzeAndDisplayEmails, the scoring scan and the card buttons, every   *)
(* await a separate step.  In SessionSpec one sign-in, one sign-out, one   *)
(* scan and one card request are in flight at a time.  A prompt in flight  *)
(* on a session that sign-out destroyed rejects.  chrome.storage applies   *)
(* get, set and remove in the order they are issued, and set succeeds.     *)
(*                                                                         *)
(* FetchSpec is one fetchMessages call, every request a separate step.     *)
(* CardSpec is a signed-in session with the Translator API: the scoring    *)
(* scan together with the translation select and the detailed-summary      *)
(* button of the cards.  A list item is its text and its                   *)
(* dataset.originalText; a text is a language and what it says.  Setting   *)
(* innerHTML replaces the elements of a list: a handler that captured the  *)
(* old elements keeps writing to them, out of the document.                *)
(***************************************************************************)
EXTENDS Integers, Sequences, FiniteSets, TLC

\* ---------------------------------------------------------------- constants
\* Variant: batches of three.
BatchSizeThree == 2 + 1

BATCH_SIZE == 5

MAX_RESULTS == 7

\* ------------------------------------------------------------------- bounds
\* Number of messages matching the window query in the mailbox.
MaxUnread == 7

\* Longest array the inference service returns for one batch.
MaxOut == 2

\* The service names, besides UnknownId, only the last NameSpan window ids.
NameSpan == 3

\* Largest window of a scan in SessionSpec.
SessionMaxUnread == 2

\* CardSpec: window sizes, translation requests in flight, items of a list.
CardMaxUnread == 1

MaxRequests == 2

MaxItems == 3

\* Most refs the list endpoint returns to a fetchMessages call in FetchSpec.
FetchMaxRefs == 9

\* An id the service may return that belongs to no window message.
UnknownId == MAX_RESULTS + 1

\* Scores the service may return: one in range, one out of range.
ScoreVals == {-5, 70}

VARIABLES
  pc,               \* "idle" | "fetching" | "scoring" | "done"
  recentEmails,     \* the fetched window, ids in fetch order
  processedEmails,  \* the accumulated array: [id, analysisData]
  i,                \* start index of the batch whose prompt is in flight
  cards,            \* the cards in ui.emailsEl, top to bottom
  sinkCalls,        \* onBatchProcessed invocations of this scan
  promptCalls,      \* aiSession.prompt invocations of this scan
  delivered,        \* ids of the last array handed to the sink, as handed
  settled,          \* outcome of every settled batch: "ok" | "fail"
  omitted,          \* pending ids a successful own batch left out
  lateNamed,        \* omitted ids that another batch's output named later
  firstSink,        \* the scan's first onBatchProcessed call
  batchesSent,      \* the batch of every prompt issued, in order of issue
  unmatchedSeen,    \* an output entry named an id outside the window
  \* state (content-script.js:13-20); a held object is TRUE, null is FALSE
  accessToken,
  isSignedIn,
  aiSession,
  summarizer,
  isTranslatorAvailable,
  translators,      \* the language pairs with a cached translator
  \* the panel
  showSignedIn,     \* what updateUIForState displayed last
  analyzeBtnDisabled,
  status,           \* the last setStatus message, by kind
  listMsg,          \* the non-card content of ui.emailsEl
  \* chrome.storage.local: NoRecord or the record under both STORAGE_KEYS
  stored,
  \* in-flight work
  data,             \* what the scan's storage.get returns
  userProfile,      \* the scan's local userProfile
  promptAlive,      \* the prompt in flight is on a session not yet destroyed
  signInPc,         \* the await handleSignIn is parked on
  signOutPending,   \* REMOVE_TOKEN: "none" | "revoking" | "answered" | "dropped"
  modify,           \* the card request in flight
  \* history
  loadAge,          \* Date.now() - lastAnalysis at the scan's decision
  builderCalled,    \* the scan invoked generateUserProfile
  windowFetch,      \* how the scan's window fetch ended
  signedOutDuring,  \* a sign-out completed while the scan was in flight
  buildStale,       \* a sign-out completed while the scan's build ran
  storedStale,      \* the record was written by such a build
  profileOut,       \* how the scan's profile prompt settled
  signInResult,     \* "none" | "pending" | "ok" | "failed"
  modifyResult,     \* how the last modifyEmail call ended
  \* the cards' on-demand handlers
  translations,     \* the handleTranslationRequest calls in flight
  summary,          \* the detailed-summary handler in flight
  created,          \* translators created by Translator.create, per language
  \* one fetchMessages call
  fPc,              \* "idle" | "list" | "details" | "returned"
  fRefs,            \* the refs of the list answer, in list order
  fWindow,          \* start index of the window of detail requests
  fPending,         \* refs of the window whose request has not settled
  fBodies,          \* the bodies of the window's settled requests, by ref
  fDetails,         \* details: the bodies of the completed windows
  fResult           \* what the call returned

scanVars == <<pc, recentEmails, processedEmails, i, cards, sinkCalls,
              promptCalls, delivered, settled, omitted, lateNamed,
              firstSink, batchesSent, unmatchedSeen>>

sessionVars == <<accessToken, isSignedIn, aiSession, summarizer,
                 isTranslatorAvailable, translators>>

signVars == <<showSignedIn, signInPc, signOutPending, signInResult>>

profileVars == <<stored, data, userProfile, loadAge, builderCalled,
                 buildStale, storedStale, profileOut>>

demandVars == <<translations, summary, created>>

panelVars == <<scanVars, sessionVars, signVars, profileVars,
               analyzeBtnDisabled, status, listMsg, promptAlive, modify,
               windowFetch, signedOutDuring, modifyResult, demandVars>>

fetchVars == <<fPc, fRefs, fWindow, fPending, fBodies, fDetails, fResult>>

vars == <<panelVars, fetchVars>>

\* ------------------------------------------------------------------ helpers
Min(a, b) == IF a < b THEN a ELSE b

SeqsUpTo(S, k) == UNION {[1..m -> S] : m \in 0..k}

Range(s) == {s[k] : k \in 1..Len(s)}

\* Array.prototype.slice(from, to), 0-based, end exclusive.
Slice(s, from, to) == SubSeq(s, from + 1, Min(to, Len(s)))

\* ------------------------------------------------------------ AnalysisResult
\* Variant: a seed that already carries a score.
PlaceholderScored(id) ==
  [id |-> id, score |-> 0, summarizedTitle |-> "Analyzing...",
   summaryPoints |-> <<>>, positiveReasons |-> <<>>, negativeReasons |-> <<>>]

Placeholder(id) ==
  [id |-> id, score |-> -1, summarizedTitle |-> "Analyzing...",
   summaryPoints |-> <<>>, positiveReasons |-> <<>>, negativeReasons |-> <<>>]

FailureRecord(id) ==
  [id |-> id, score |-> 0,
   summarizedTitle |-> "AI analysis failed for this email.",
   summaryPoints |-> <<>>, positiveReasons |-> <<>>,
   negativeReasons |-> <<"AI model failed to process this batch.">>]

\* An entry of the array the service returns (schema of lines 256-277).
ModelEntry(id, score) ==
  [id |-> id, score |-> score, summarizedTitle |-> "title",
   summaryPoints |-> <<"p1", "p2">>, positiveReasons |-> <<>>,
   negativeReasons |-> <<>>]

NamedIds(n) == {UnknownId} \cup {id \in 1..n : id > n - NameSpan}

Entries(n) == {ModelEntry(id, sc) : id \in NamedIds(n), sc \in ScoreVals}

\* What a prompt can settle with.
Outcomes(n) ==
  {[kind |-> "reject", value |-> <<>>], [kind |-> "nonjson", value |-> <<>>]}
  \cup {[kind |-> "json", value |-> v] : v \in SeqsUpTo(Entries(n), MaxOut)}

OutcomeTable == [n \in 0..MAX_RESULTS |-> Outcomes(n)]

\* --------------------------------------------------------- scoreRecentEmails
Seed(emails) ==
  [k \in 1..Len(emails) |->
     [id |-> emails[k], analysisData |-> Placeholder(emails[k])]]

\* Array.prototype.findIndex on e.id; 0 stands for JavaScript's -1.
FindIndex(emails, id) ==
  IF \E k \in 1..Len(emails) : emails[k].id = id
  THEN CHOOSE k \in 1..Len(emails) :
         /\ emails[k].id = id
         /\ \A j \in 1..(k - 1) : emails[j].id # id
  ELSE 0

\* Variant: an entry that matches no element is added to the array.
ApplyResultAppends(emails, analysisResult) ==
  LET k == FindIndex(emails, analysisResult.id)
  IN  IF k > 0
      THEN [emails EXCEPT ![k].analysisData = analysisResult]
      ELSE Append(emails, [id |-> analysisResult.id,
                           analysisData |-> analysisResult])

ApplyResult(emails, analysisResult) ==
  LET emailIndex == FindIndex(emails, analysisResult.id)
  IN  IF emailIndex > 0
      THEN [emails EXCEPT ![emailIndex].analysisData = analysisResult]
      ELSE emails

\* Variant: once the entries are merged, every message still pending is
\* filled with the failure record.
RECURSIVE OnSuccessWithFill(_, _)
OnSuccessWithFill(emails, batchResults) ==
  IF batchResults = <<>>
  THEN [k \in 1..Len(emails) |->
          IF emails[k].analysisData.score = -1
          THEN [emails[k] EXCEPT !.analysisData = FailureRecord(emails[k].id)]
          ELSE emails[k]]
  ELSE OnSuccessWithFill(ApplyResult(emails, Head(batchResults)),
                         Tail(batchResults))

RECURSIVE OnSuccess(_, _)
OnSuccess(emails, batchResults) ==
  IF batchResults = <<>> THEN emails
  ELSE OnSuccess(ApplyResult(emails, Head(batchResults)), Tail(batchResults))

ApplyFailure(emails, failedId) ==
  LET emailIndex == FindIndex(emails, failedId)
  IN  IF emailIndex > 0
      THEN [emails EXCEPT ![emailIndex].analysisData = FailureRecord(failedId)]
      ELSE emails

\* Variant: the catch block walks the whole accumulated array, not the batch.
OnFailureWholeWindow(emails, batch) ==
  [k \in 1..Len(emails) |->
     [emails[k] EXCEPT !.analysisData = FailureRecord(emails[k].id)]]

RECURSIVE OnFailure(_, _)
OnFailure(emails, batch) ==
  IF batch = <<>> THEN emails
  ELSE OnFailure(ApplyFailure(emails, Head(batch)), Tail(batch))

\* Variant: a failed batch ends the loop.
LoopStopsOnFailure(kind, nextI, n) == kind # "fail" /\ nextI < n

\* The loop condition of line 225; the catch of line 295 swallows the error,
\* so the outcome of the batch plays no part in it.
LoopContinues(kind, nextI, n) == nextI < n

\* -------------------------------------------------------------- renderEmails
\* Variant: an element goes ahead of the elements of equal score.
InsertByScoreAhead(sorted, e) ==
  LET ahead == Cardinality({k \in 1..Len(sorted) :
                 sorted[k].analysisData.score > e.analysisData.score})
  IN  SubSeq(sorted, 1, ahead) \o <<e>> \o SubSeq(sorted, ahead + 1, Len(sorted))

\* emails.sort((a, b) => b.analysisData.score - a.analysisData.score):
\* a stable sort, descending by score.
InsertByScore(sorted, e) ==
  LET ahead == Cardinality({k \in 1..Len(sorted) :
                 sorted[k].analysisData.score >= e.analysisData.score})
  IN  SubSeq(sorted, 1, ahead) \o <<e>> \o SubSeq(sorted, ahead + 1, Len(sorted))

RECURSIVE SortByScore(_)
SortByScore(emails) ==
  IF emails = <<>> THEN <<>>
  ELSE InsertByScore(SortByScore(SubSeq(emails, 1, Len(emails) - 1)),
                     emails[Len(emails)])

\* The text of a list item: its language and what it says.  "" is the empty
\* string, which is also what an unset data attribute counts as.
Text(lang, src) == [lang |-> lang, src |-> src]

NoText == Text("en", "")

\* A fresh <li>: its textContent and its dataset.originalText.
Item(text) == [text |-> text, saved |-> NoText]

\* The card of one message: score, summary list, translation container
\* ("none" without the Translator API, else the select's value) and the
\* detailed-summary button.
Card(email) ==
  [emailId |-> email.id, score |-> email.analysisData.score,
   items |-> [k \in 1..Len(email.analysisData.summaryPoints) |->
                Item(Text("en", email.analysisData.summaryPoints[k]))],
   select |-> IF isTranslatorAvailable THEN "" ELSE "none",
   button |-> "show"]

\* The array as renderEmails leaves it, and the cards it builds.
renderEmails(emails) ==
  IF Len(emails) = 0
  THEN [emails |-> emails, cards |-> <<>>]
  ELSE LET sorted == SortByScore(emails)
       IN  [emails |-> sorted,
            cards |-> [k \in 1..Len(sorted) |-> Card(sorted[k])]]

IdsOf(emails) == [k \in 1..Len(emails) |-> emails[k].id]

ScoreOf(id) == processedEmails[FindIndex(processedEmails, id)].analysisData.score

\* ------------------------------------------------------ profile and storage
PROFILE_REFRESH_INTERVAL == 24 * 60 * 60 * 1000

\* Date.now() - lastAnalysis at the moment the scan decides.
Ages == {1, PROFILE_REFRESH_INTERVAL - 1, PROFILE_REFRESH_INTERVAL,
         PROFILE_REFRESH_INTERVAL + 1}

PROFILE_FIELDS == {"highPrioritySenders", "highPriorityKeywords",
                   "lowPrioritySenders", "lowPriorityKeywords"}

\* Variant: a schema without its required list.
ProfileRequiredNone == {}

\* The schema's required list.
PROFILE_REQUIRED == PROFILE_FIELDS

NoProfile == [has |-> FALSE, fields |-> {}]

Profile(fields) == [has |-> TRUE, fields |-> fields]

\* Neither storage key is set.
NoRecord == [userProfile |-> NoProfile, lastAnalysis |-> FALSE]

\* Variant: the profile is written without its timestamp.
RecordProfileOnly(profile) == [userProfile |-> profile, lastAnalysis |-> FALSE]

\* storage.set of generateUserProfile: both keys in one call.
Record(profile) == [userProfile |-> profile, lastAnalysis |-> TRUE]

\* What the profile prompt can settle with under responseConstraint: schema.
ProfileOutcomes ==
  {[kind |-> "reject", fields |-> {}], [kind |-> "nonjson", fields |-> {}]}
    \cup {[kind |-> "json", fields |-> f] :
            f \in {g \in SUBSET PROFILE_FIELDS : PROFILE_REQUIRED \subseteq g}}

\* Variant: stale from the interval on.
IsProfileStaleAtInterval(hasTimestamp, age) ==
  ~hasTimestamp \/ age >= PROFILE_REFRESH_INTERVAL

\* isProfileStale
IsProfileStale(hasTimestamp, age) ==
  ~hasTimestamp \/ age > PROFILE_REFRESH_INTERVAL

\* Variant: a stored profile is used whatever its age.
NeedsBuildIgnoresAge(d, age) == ~d.userProfile.has

\* !userProfile || isProfileStale
NeedsBuild(d, age) ==
  ~d.userProfile.has \/ IsProfileStale(d.lastAnalysis, age)

\* ------------------------------------------------------------- card request
NoModify == [id |-> 0, stage |-> "none", attached |-> FALSE]

\* ui.emailsEl is rewritten: the card a request belongs to leaves the list.
Detach(m) == IF m.stage = "none" THEN m ELSE [m EXCEPT !.attached = FALSE]

\* Variant: a response counts as success whatever its status.
ModifyResultAnyResponse(answer) == answer # "transport"

\* What modifyEmail returns for the way its request ended.
ModifyResult(answer) == answer = "2xx"

RemoveCard(cs, id) == SelectSeq(cs, LAMBDA c : c.emailId # id)

\* ------------------------------------------------------ on-demand handlers
\* The options of the translation select that the model picks from.
LANGS == {"es", "fr"}

\* cacheKey of handleTranslationRequest
CacheKey(lang) == <<"en", lang>>

\* translator.translate(text)
Translate(lang, text) == IF text.src = "" THEN text ELSE Text(lang, text.src)

\* if (!li.dataset.originalText) li.dataset.originalText = li.textContent
SaveOriginal(item) ==
  IF item.saved = NoText THEN [item EXCEPT !.saved = item.text] ELSE item

\* if (li.dataset.originalText) li.textContent = li.dataset.originalText
Restore(item) ==
  IF item.saved # NoText THEN [item EXCEPT !.text = item.saved] ELSE item

\* li.textContent = the translation of li.dataset.originalText
ShowTranslated(lang, item) == [item EXCEPT !.text = Translate(lang, item.saved)]

NoSummary == [card |-> 0, stage |-> "none", live |-> FALSE]

\* A translation request whose card left the list: neither its container
\* nor its list items are in the document any more (card 0: no card).
DetachTranslation(t) ==
  [t EXCEPT !.live = FALSE, !.items = FALSE, !.card = 0]

\* The same for the detailed-summary handler in flight.
DetachSummary(m) ==
  IF m.stage = "none" THEN m ELSE [m EXCEPT !.live = FALSE, !.card = 0]

\* The summary list of card id got new <li> elements: the listItems a
\* request on that card captured are no longer the ones displayed.
ListReplaced(ts, id) ==
  [j \in 1..Len(ts) |->
     IF ts[j].card = id /\ ts[j].live THEN [ts[j] EXCEPT !.items = FALSE]
     ELSE ts[j]]

\* The card of message id is taken out of the list.
CardDetached(ts, id) ==
  [j \in 1..Len(ts) |->
     IF ts[j].card = id THEN DetachTranslation(ts[j]) ELSE ts[j]]

\* ui.emailsEl is rewritten: every handler in flight keeps working on
\* elements that are no longer displayed.
Rerendered ==
  /\ translations' = [j \in 1..Len(translations) |->
                        DetachTranslation(translations[j])]
  /\ summary' = DetachSummary(summary)
  /\ UNCHANGED created

\* Position of the card of message id; 0 without one.
CardAt(id) ==
  IF \E k \in 1..Len(cards) : cards[k].emailId = id
  THEN CHOOSE k \in 1..Len(cards) : cards[k].emailId = id
  ELSE 0

\* Element j taken out of a sequence.
Without(s, j) == SubSeq(s, 1, j - 1) \o SubSeq(s, j + 1, Len(s))

\* ------------------------------------------------------- the rest of a scan
\* Variant: the batch is cut from the collection as presented.
BatchOfPresented(recent, processed, from) ==
  Slice(IdsOf(processed), from, from + BATCH_SIZE)

\* recentEmails.slice(i, i + BATCH_SIZE)
BatchOf(recent, processed, from) == Slice(recent, from, from + BATCH_SIZE)

\* Variant: the loop issues the next batch's prompt along with this one.
AwaitedPromptsTwo == 1 + 1

\* The loop body awaits one prompt call before it goes on.
AwaitedPrompts == 1

\* No onBatchProcessed call yet.
NoSink == [prompts |-> -1, emails |-> <<>>]

\* An onBatchProcessed call: the prompts issued before it and its argument.
SinkCall(prompts, emails) == [prompts |-> prompts, emails |-> emails]

\* The batches from index `from` on, when state.aiSession is null: every
\* prompt call throws inside the try, so the loop runs to its end in one
\* task.  r is [emails, delivered, n]: the array, the ids last handed to the
\* sink and the number of batches failed so far.
RECURSIVE FailRemaining(_, _, _, _)
FailRemaining(r, window, from, kind) ==
  IF ~LoopContinues(kind, from, Len(window))
  THEN r
  ELSE LET failed == OnFailure(r.emails, BatchOf(window, r.emails, from))
       IN  FailRemaining([emails |-> renderEmails(failed).emails,
                          delivered |-> IdsOf(failed),
                          n |-> r.n + 1],
                         window, from + BATCH_SIZE, "fail")

\* The message renderEmails leaves in place of cards.
ListMsgOf(emails) == IF Len(emails) = 0 THEN "caughtup" ELSE "none"

\* ---------------------------------------------------------------------- Init
\* No fetchMessages call has been made.
FetchIdle ==
  /\ fPc = "idle"
  /\ fRefs = <<>>
  /\ fWindow = 0
  /\ fPending = {}
  /\ fBodies = <<>>
  /\ fDetails = <<>>
  /\ fResult = <<>>

ScanIdle ==
  /\ pc = "idle"
  /\ recentEmails = <<>>
  /\ processedEmails = <<>>
  /\ i = 0
  /\ cards = <<>>
  /\ sinkCalls = 0
  /\ promptCalls = 0
  /\ delivered = <<>>
  /\ settled = <<>>
  /\ omitted = {}
  /\ lateNamed = {}
  /\ firstSink = NoSink
  /\ batchesSent = <<>>
  /\ unmatchedSeen = FALSE
  /\ listMsg = "none"
  /\ data = NoRecord
  /\ userProfile = NoProfile
  /\ promptAlive = FALSE
  /\ signInPc = "idle"
  /\ signOutPending = "none"
  /\ modify = NoModify
  /\ loadAge = 0
  /\ builderCalled = FALSE
  /\ windowFetch = "none"
  /\ signedOutDuring = FALSE
  /\ buildStale = FALSE
  /\ storedStale = FALSE
  /\ profileOut = "none"
  /\ signInResult = "none"
  /\ modifyResult = "none"
  /\ translators = {}
  /\ translations = <<>>
  /\ summary = NoSummary
  /\ created = [lang \in LANGS |-> 0]
  /\ FetchIdle

\* A signed-in session whose stored profile is fresh.
Init ==
  /\ ScanIdle
  /\ accessToken = TRUE
  /\ isSignedIn = TRUE
  /\ aiSession = TRUE
  /\ summarizer = FALSE
  /\ isTranslatorAvailable = FALSE
  /\ showSignedIn = TRUE
  /\ analyzeBtnDisabled = FALSE
  /\ status = "signedin"
  /\ stored = Record(Profile(PROFILE_FIELDS))

\* The panel as main() leaves it: signed out, nothing stored.
SessionInit ==
  /\ ScanIdle
  /\ accessToken = FALSE
  /\ isSignedIn = FALSE
  /\ aiSession = FALSE
  /\ summarizer = FALSE
  /\ isTranslatorAvailable = FALSE
  /\ showSignedIn = FALSE
  /\ analyzeBtnDisabled = TRUE
  /\ status = "none"
  /\ stored = NoRecord

\* ------------------------------------------------------------------- actions
ResetScan ==
  /\ recentEmails' = <<>>
  /\ processedEmails' = <<>>
  /\ i' = 0
  /\ sinkCalls' = 0
  /\ promptCalls' = 0
  /\ delivered' = <<>>
  /\ settled' = <<>>
  /\ omitted' = {}
  /\ lateNamed' = {}
  /\ firstSink' = NoSink
  /\ batchesSent' = <<>>
  /\ unmatchedSeen' = FALSE
  /\ windowFetch' = "none"

KeepScanData ==
  UNCHANGED <<recentEmails, processedEmails, i, sinkCalls, promptCalls,
              delivered, settled, omitted, lateNamed, windowFetch, firstSink,
              batchesSent, unmatchedSeen>>

\* updateUIForState, run after the step's assignments to state.
updateUIForState ==
  /\ showSignedIn' = isSignedIn'
  /\ analyzeBtnDisabled' = ~aiSession'

\* The scan button of a session whose profile is fresh, up to the window
\* fetch of scoreRecentEmails: the spinner replaces the list.
StartScan ==
  /\ pc \in {"idle", "done"}
  /\ pc' = "fetching"
  /\ ResetScan
  /\ cards' = <<>>
  /\ listMsg' = "spinner"
  /\ analyzeBtnDisabled' = TRUE
  /\ status' = "loaded"
  /\ modify' = Detach(modify)
  /\ Rerendered
  /\ UNCHANGED <<sessionVars, signVars, profileVars, promptAlive,
                 signedOutDuring, modifyResult>>
  /\ UNCHANGED fetchVars

\* scoreRecentEmails got [] from fetchMessages: onBatchProcessed([]) `sinks`
\* times, return; analyzeAndDisplayEmails reports completion.
EmptyWindowBranch(how, sinks) ==
  /\ recentEmails' = <<>>
  /\ processedEmails' = <<>>
  /\ delivered' = <<>>
  /\ cards' = renderEmails(<<>>).cards
  /\ listMsg' = ListMsgOf(<<>>)
  /\ sinkCalls' = sinkCalls + sinks
  /\ windowFetch' = how
  /\ pc' = "done"
  /\ status' = "complete"
  /\ analyzeBtnDisabled' = FALSE
  /\ modify' = Detach(modify)
  /\ Rerendered
  /\ firstSink' = SinkCall(promptCalls, <<>>)
  /\ UNCHANGED <<i, promptCalls, settled, omitted, lateNamed, batchesSent,
                 unmatchedSeen, sessionVars,
                 signVars, profileVars, promptAlive, signedOutDuring,
                 modifyResult>>
  /\ UNCHANGED fetchVars

\* Variant: the empty branch lacks its return and runs on into the seeding
\* code, which delivers the (empty) seeded array once more.
WindowEmptyFallsThrough ==
  /\ pc = "fetching"
  /\ EmptyWindowBranch("empty", 2)

\* fetchMessages returned no message.
WindowEmpty ==
  /\ pc = "fetching"
  /\ EmptyWindowBranch("empty", 1)

\* The list request or a detail request of the window fetch failed:
\* fetchMessages' catch returns [].
WindowFetchFails ==
  /\ pc = "fetching"
  /\ EmptyWindowBranch("failed", 1)

\* fetchMessages returned n > 0 messages: seed, first delivery, first prompt
\* (or, without a session, every batch failing on the spot).
WindowSeeded(n) ==
  /\ pc = "fetching"
  /\ LET window == [k \in 1..n |-> k]
         seeded == Seed(window)
         shown == renderEmails(seeded)
         base == [emails |-> shown.emails, delivered |-> IdsOf(seeded),
                  n |-> 0]
         rest == IF aiSession THEN base
                 ELSE FailRemaining(base, window, 0, "seed")
     IN  /\ recentEmails' = window
         /\ firstSink' = SinkCall(promptCalls, seeded)
         /\ batchesSent' = IF aiSession
                           THEN Append(batchesSent, BatchOf(window, shown.emails, 0))
                           ELSE batchesSent
         /\ delivered' = rest.delivered
         /\ processedEmails' = rest.emails
         /\ cards' = renderEmails(rest.emails).cards
         /\ listMsg' = ListMsgOf(rest.emails)
         /\ sinkCalls' = sinkCalls + 1 + rest.n
         /\ settled' = settled \o [k \in 1..rest.n |-> "fail"]
         /\ i' = BATCH_SIZE * rest.n
  /\ windowFetch' = "ok"
  /\ modify' = Detach(modify)
  /\ Rerendered
  /\ IF aiSession
     THEN /\ pc' = "scoring"
          /\ promptCalls' = promptCalls + AwaitedPrompts
          /\ promptAlive' = TRUE
          /\ status' = "analyzing"
          /\ UNCHANGED analyzeBtnDisabled
     ELSE /\ pc' = "done"
          /\ status' = "complete"
          /\ analyzeBtnDisabled' = FALSE
          /\ UNCHANGED <<promptCalls, promptAlive>>
  /\ UNCHANGED <<omitted, lateNamed, unmatchedSeen, sessionVars, signVars,
                 profileVars,
                 signedOutDuring, modifyResult>>
  /\ UNCHANGED fetchVars

\* The prompt of the batch starting at i settles: merge or mark failed,
\* deliver, then issue the next batch's prompt or return.
PromptSettles(out) ==
  /\ pc = "scoring"
  /\ promptAlive \/ out.kind = "reject"
  /\ LET batch == BatchOf(recentEmails, processedEmails, i)
         ok == out.kind = "json"
         merged == IF ok THEN OnSuccess(processedEmails, out.value)
                         ELSE OnFailure(processedEmails, batch)
         shown == renderEmails(merged)
         outIds == {out.value[k].id : k \in 1..Len(out.value)}
         kind == IF ok THEN "ok" ELSE "fail"
         base == [emails |-> shown.emails, delivered |-> IdsOf(merged),
                  n |-> 0]
         rest == IF aiSession THEN base
                 ELSE FailRemaining(base, recentEmails, i + BATCH_SIZE, kind)
     IN  /\ delivered' = rest.delivered
         /\ processedEmails' = rest.emails
         /\ cards' = renderEmails(rest.emails).cards
         /\ listMsg' = ListMsgOf(rest.emails)
         /\ settled' = Append(settled, kind) \o [k \in 1..rest.n |-> "fail"]
         /\ omitted' = IF ok
                       THEN omitted \cup {id \in Range(batch) :
                                            id \notin outIds /\ ScoreOf(id) = -1}
                       ELSE omitted
         /\ lateNamed' = IF ok THEN lateNamed \cup (omitted \cap outIds)
                               ELSE lateNamed
         /\ unmatchedSeen' = (unmatchedSeen \/ outIds \ Range(recentEmails) # {})
         /\ i' = i + BATCH_SIZE * (1 + rest.n)
         /\ sinkCalls' = sinkCalls + 1 + rest.n
         /\ IF aiSession /\ LoopContinues(kind, i + BATCH_SIZE, Len(recentEmails))
            THEN /\ pc' = "scoring"
                 /\ promptCalls' = promptCalls + AwaitedPrompts
                 /\ promptAlive' = TRUE
                 /\ batchesSent' =
                      Append(batchesSent,
                             BatchOf(recentEmails, shown.emails, i + BATCH_SIZE))
                 /\ status' = "analyzing"
                 /\ UNCHANGED analyzeBtnDisabled
            ELSE /\ pc' = "done"
                 /\ status' = "complete"
                 /\ analyzeBtnDisabled' = FALSE
                 /\ UNCHANGED <<promptCalls, promptAlive, batchesSent>>
  /\ modify' = Detach(modify)
  /\ Rerendered
  /\ UNCHANGED <<recentEmails, windowFetch, firstSink, sessionVars, signVars,
                 profileVars, signedOutDuring, modifyResult>>
  /\ UNCHANGED fetchVars

\* aiSession.prompt settles with whatever the service produces.
BatchSettles ==
  /\ pc = "scoring"
  /\ \E out \in OutcomeTable[Len(recentEmails)] : PromptSettles(out)

Next ==
  \/ StartScan
  \/ WindowEmpty
  \/ WindowFetchFails
  \/ \E n \in 1..Min(MaxUnread, MAX_RESULTS) : WindowSeeded(n)
  \/ BatchSettles

Spec == Init /\ [][Next]_vars

\* ------------------------------------------------------ the panel's session
\* Variant: the catch without the finally.
ScanFailsKeepsGate ==
  /\ pc' = "done"
  /\ status' = "error"
  /\ listMsg' = "error"
  /\ cards' = <<>>
  /\ UNCHANGED analyzeBtnDisabled
  /\ modify' = Detach(modify)
  /\ Rerendered

\* The catch of analyzeAndDisplayEmails and its finally.
ScanFails ==
  /\ pc' = "done"
  /\ status' = "error"
  /\ listMsg' = "error"
  /\ cards' = <<>>
  /\ analyzeBtnDisabled' = FALSE
  /\ modify' = Detach(modify)
  /\ Rerendered

\* scoreRecentEmails is called: it throws without a session, else clears its
\* arrays and issues the window fetch.
EnterScoring ==
  IF aiSession
  THEN /\ pc' = "fetching"
       /\ UNCHANGED <<cards, listMsg, analyzeBtnDisabled, modify, demandVars>>
  ELSE ScanFails

\* The scan button.  It is clickable while displayed and enabled.
ClickScan ==
  /\ showSignedIn
  /\ ~analyzeBtnDisabled
  /\ pc \in {"idle", "done"}
  /\ IF ~isSignedIn \/ ~aiSession
     THEN /\ status' = "signinfirst"
          /\ KeepScanData
          /\ UNCHANGED <<pc, cards, listMsg, analyzeBtnDisabled, modify, demandVars, data,
                         loadAge, builderCalled, buildStale, profileOut,
                         signedOutDuring>>
     ELSE /\ pc' = "loading"
          /\ ResetScan
          /\ cards' = <<>>
          /\ listMsg' = "spinner"
          /\ analyzeBtnDisabled' = TRUE
          /\ status' = "loading"
          /\ modify' = Detach(modify)
          /\ Rerendered
          /\ data' = stored
          /\ loadAge' = 0
          /\ builderCalled' = FALSE
          /\ buildStale' = FALSE
          /\ profileOut' = "none"
          /\ signedOutDuring' = FALSE
  /\ UNCHANGED <<sessionVars, signVars, stored, userProfile, storedStale,
                 promptAlive, modifyResult>>
  /\ UNCHANGED fetchVars

\* storage.get resolves: use the stored profile or call generateUserProfile,
\* which throws without a session and else issues its four sample fetches.
ProfileLoaded(age) ==
  /\ pc = "loading"
  /\ age \in (IF data.lastAnalysis THEN Ages ELSE {0})
  /\ loadAge' = age
  /\ buildStale' = FALSE
  /\ IF NeedsBuild(data, age)
     THEN /\ builderCalled' = TRUE
          /\ userProfile' = data.userProfile
          /\ IF aiSession
             THEN /\ pc' = "sampling"
                  /\ status' = "sampling"
                  /\ UNCHANGED <<cards, listMsg, analyzeBtnDisabled, modify, demandVars>>
             ELSE ScanFails
     ELSE /\ builderCalled' = FALSE
          /\ userProfile' = data.userProfile
          /\ EnterScoring
          /\ status' = IF aiSession THEN "loaded" ELSE "error"
  /\ KeepScanData
  /\ UNCHANGED <<sessionVars, signVars, stored, data, storedStale,
                 profileOut, promptAlive, signedOutDuring, modifyResult>>
  /\ UNCHANGED fetchVars

\* The four sample fetches have settled (each with a list, possibly empty):
\* the profile prompt is issued, or the call throws without a session.
SamplesFetched ==
  /\ pc = "sampling"
  /\ IF aiSession
     THEN /\ pc' = "profiling"
          /\ status' = "profiling"
          /\ promptAlive' = TRUE
          /\ UNCHANGED <<cards, listMsg, analyzeBtnDisabled, modify, demandVars>>
     ELSE /\ ScanFails
          /\ UNCHANGED promptAlive
  /\ KeepScanData
  /\ UNCHANGED <<sessionVars, signVars, profileVars, signedOutDuring,
                 modifyResult>>
  /\ UNCHANGED fetchVars

\* Variant: the answer is stored unparsed.
BuildSucceedsUnparsed(out) == out.kind # "reject"

\* The try of generateUserProfile runs through: the prompt resolved and its
\* text parsed.
BuildSucceeds(out) == out.kind = "json"

\* The profile prompt settles: JSON.parse and storage.set, or the catch.
ProfilePromptSettles(out) ==
  /\ pc = "profiling"
  /\ promptAlive \/ out.kind = "reject"
  /\ profileOut' = out.kind
  /\ IF BuildSucceeds(out)
     THEN /\ userProfile' = Profile(out.fields)
          /\ stored' = Record(Profile(out.fields))
          /\ storedStale' = buildStale
          /\ pc' = "saving"
          /\ UNCHANGED <<status, cards, listMsg, analyzeBtnDisabled, modify, demandVars>>
     ELSE /\ ScanFails
          /\ UNCHANGED <<userProfile, stored, storedStale>>
  /\ KeepScanData
  /\ UNCHANGED <<sessionVars, signVars, data, loadAge, builderCalled,
                 buildStale, promptAlive, signedOutDuring, modifyResult>>
  /\ UNCHANGED fetchVars

ProfileSettles ==
  /\ pc = "profiling"
  /\ \E out \in ProfileOutcomes : ProfilePromptSettles(out)

\* storage.set resolves: generateUserProfile returns the profile and
\* scoreRecentEmails is called.
ProfileSaved ==
  /\ pc = "saving"
  /\ EnterScoring
  /\ status' = IF aiSession THEN status ELSE "error"
  /\ KeepScanData
  /\ UNCHANGED <<sessionVars, signVars, profileVars, promptAlive,
                 signedOutDuring, modifyResult>>
  /\ UNCHANGED fetchVars

\* ------------------------------------------------------------------ sign-in
\* Variant: the catch resets the flags but keeps the objects.
SignInCatchKeepsObjects ==
  /\ status' = "autherror"
  /\ accessToken' = FALSE
  /\ isSignedIn' = FALSE
  /\ UNCHANGED <<aiSession, summarizer>>
  /\ isTranslatorAvailable' = FALSE
  /\ translators' = {}
  /\ updateUIForState
  /\ signInPc' = "idle"

\* The catch of handleSignIn.
SignInCatch ==
  /\ status' = "autherror"
  /\ accessToken' = FALSE
  /\ isSignedIn' = FALSE
  /\ aiSession' = FALSE
  /\ summarizer' = FALSE
  /\ isTranslatorAvailable' = FALSE
  /\ translators' = {}
  /\ updateUIForState
  /\ signInPc' = "idle"

\* The end of handleSignIn's try.
SignInCompletes(hasTranslator) ==
  /\ isTranslatorAvailable' = (hasTranslator \/ isTranslatorAvailable)
  /\ updateUIForState
  /\ status' = "signedin"
  /\ signInPc' = "idle"

NotSession ==
  UNCHANGED <<scanVars, profileVars, listMsg, promptAlive, modify, demandVars, windowFetch,
              signedOutDuring, modifyResult, signOutPending>>

\* The sign-in button, displayed while the panel shows the signed-out view.
ClickSignIn ==
  /\ ~showSignedIn
  /\ signInPc = "idle"
  /\ status' = "requesting"
  /\ signInPc' = "token"
  /\ signInResult' = "pending"
  /\ UNCHANGED <<sessionVars, showSignedIn, analyzeBtnDisabled>>
  /\ NotSession
  /\ UNCHANGED fetchVars

\* The GET_TOKEN answer: an error or no response, a token in a browser
\* without LanguageModel, or a token.
TokenAnswered(answer) ==
  /\ signInPc = "token"
  /\ IF answer = "token"
     THEN /\ accessToken' = TRUE
          /\ isSignedIn' = TRUE
          /\ status' = "creatingai"
          /\ signInPc' = "aiAvailability"
          /\ UNCHANGED <<aiSession, summarizer, isTranslatorAvailable,
                         translators, showSignedIn, analyzeBtnDisabled>>
     ELSE SignInCatch
  /\ signInResult' = IF answer = "token" THEN "pending" ELSE "failed"
  /\ NotSession
  /\ UNCHANGED fetchVars

\* LanguageModel.availability() settles.
AiAvailabilitySettles(answer) ==
  /\ signInPc = "aiAvailability"
  /\ IF answer = "available"
     THEN /\ signInPc' = "aiCreate"
          /\ UNCHANGED <<sessionVars, showSignedIn, analyzeBtnDisabled,
                         status>>
     ELSE SignInCatch
  /\ signInResult' = IF answer = "available" THEN "pending" ELSE "failed"
  /\ NotSession
  /\ UNCHANGED fetchVars

\* LanguageModel.create() settles; without a Summarizer API the try ends here.
AiCreateSettles(answer, hasTranslator) ==
  /\ signInPc = "aiCreate"
  /\ IF answer = "reject"
     THEN SignInCatch
     ELSE /\ aiSession' = TRUE
          /\ UNCHANGED <<accessToken, isSignedIn, summarizer, translators>>
          /\ IF answer = "session"
             THEN /\ signInPc' = "summarizerAvailability"
                  /\ status' = "creatingsummarizer"
                  /\ UNCHANGED <<isTranslatorAvailable, showSignedIn,
                                 analyzeBtnDisabled>>
             ELSE SignInCompletes(hasTranslator)
  /\ signInResult' = CASE answer = "reject" -> "failed"
                        [] answer = "session" -> "pending"
                        [] OTHER -> "ok"
  /\ NotSession
  /\ UNCHANGED fetchVars

\* Summarizer.availability() settles.
SummarizerAvailabilitySettles(answer, hasTranslator) ==
  /\ signInPc = "summarizerAvailability"
  /\ IF answer = "reject"
     THEN SignInCatch
     ELSE /\ UNCHANGED <<accessToken, isSignedIn, aiSession, summarizer,
                         translators>>
          /\ IF answer = "available"
             THEN /\ signInPc' = "summarizerCreate"
                  /\ UNCHANGED <<isTranslatorAvailable, showSignedIn,
                                 analyzeBtnDisabled, status>>
             ELSE SignInCompletes(hasTranslator)
  /\ signInResult' = CASE answer = "reject" -> "failed"
                        [] answer = "available" -> "pending"
                        [] OTHER -> "ok"
  /\ NotSession
  /\ UNCHANGED fetchVars

\* Summarizer.create() settles.
SummarizerCreateSettles(answer, hasTranslator) ==
  /\ signInPc = "summarizerCreate"
  /\ IF answer = "reject"
     THEN SignInCatch
     ELSE /\ summarizer' = TRUE
          /\ UNCHANGED <<accessToken, isSignedIn, aiSession, translators>>
          /\ SignInCompletes(hasTranslator)
  /\ signInResult' = IF answer = "reject" THEN "failed" ELSE "ok"
  /\ NotSession
  /\ UNCHANGED fetchVars

\* ----------------------------------------------------------------- sign-out
\* How the revoke request of the background can end: a 2xx response, another
\* response, or no response.
Revocations == {"ok", "notOk", "failed"}

\* Variant: the background has no catch on its revoke request.
AnswersOnResponseOnly(revoke) == revoke \in {"ok", "notOk"}

\* The background calls sendResponse in the then and in the catch of its
\* revoke request.
Answers(revoke) == revoke \in {"ok", "notOk", "failed"}

\* The sign-out button: REMOVE_TOKEN is sent with the token held, and the
\* background drops the cached token and issues the revoke request.
ClickSignOut ==
  /\ showSignedIn
  /\ signOutPending = "none"
  /\ accessToken
  /\ status' = "signingout"
  /\ signOutPending' = "revoking"
  /\ UNCHANGED <<scanVars, sessionVars, showSignedIn, signInPc, signInResult,
                 profileVars,
                 analyzeBtnDisabled, listMsg, promptAlive, modify, demandVars,
                 windowFetch, signedOutDuring, modifyResult>>
  /\ UNCHANGED fetchVars

\* The background's revoke request ends and the message is answered.
RevokeSettles(revoke) ==
  /\ signOutPending = "revoking"
  /\ signOutPending' = IF Answers(revoke) THEN "answered" ELSE "dropped"
  /\ UNCHANGED <<scanVars, sessionVars, showSignedIn, signInPc, signInResult,
                 profileVars, analyzeBtnDisabled, status, listMsg, promptAlive,
                 modify, demandVars, windowFetch, signedOutDuring,
                 modifyResult>>
  /\ UNCHANGED fetchVars

\* The REMOVE_TOKEN callback.
SignOutDone ==
  /\ signOutPending = "answered"
  /\ signOutPending' = "none"
  /\ promptAlive' = FALSE
  /\ accessToken' = FALSE
  /\ isSignedIn' = FALSE
  /\ aiSession' = FALSE
  /\ summarizer' = FALSE
  /\ isTranslatorAvailable' = FALSE
  /\ translators' = {}
  /\ stored' = NoRecord
  /\ storedStale' = FALSE
  /\ cards' = <<>>
  /\ listMsg' = "none"
  /\ modify' = Detach(modify)
  /\ Rerendered
  /\ updateUIForState
  /\ status' = "signedout"
  /\ signedOutDuring' = (signedOutDuring \/ pc \notin {"idle", "done"})
  /\ buildStale' = (buildStale \/ pc \in {"sampling", "profiling", "saving"})
  /\ UNCHANGED <<pc, recentEmails, processedEmails, i, sinkCalls, promptCalls,
                 delivered, settled, omitted, lateNamed, firstSink, batchesSent,
                 unmatchedSeen, windowFetch, data,
                 userProfile, loadAge, builderCalled, profileOut, signInPc,
                 signInResult, modifyResult>>
  /\ UNCHANGED fetchVars

\* ------------------------------------------------------------- card buttons
NotCards ==
  UNCHANGED <<pc, recentEmails, processedEmails, i, sinkCalls, promptCalls,
              delivered, settled, omitted, lateNamed, firstSink, batchesSent,
              unmatchedSeen, windowFetch, sessionVars, signVars, profileVars, analyzeBtnDisabled, status,
              listMsg, promptAlive, signedOutDuring>>

\* "Mark as Read" or "Delete" on the card of message id: modifyEmail throws
\* without a token, else sends its request.
ClickCardButton(id) ==
  /\ modify.stage = "none"
  /\ \E k \in 1..Len(cards) : cards[k].emailId = id
  /\ IF accessToken
     THEN /\ modify' = [id |-> id, stage |-> "pending", attached |-> TRUE]
          /\ modifyResult' = "pending"
     ELSE /\ modify' = NoModify
          /\ modifyResult' = "rejected"
  /\ UNCHANGED <<cards, demandVars>>
  /\ NotCards
  /\ UNCHANGED fetchVars

\* The modify request ends: a 2xx response, another response, or no response.
ModifySettles(answer) ==
  /\ modify.stage = "pending"
  /\ IF ModifyResult(answer)
     THEN /\ modifyResult' = "true"
          /\ modify' = [modify EXCEPT !.stage = "fading"]
     ELSE /\ modifyResult' = "false"
          /\ modify' = NoModify
  /\ UNCHANGED <<cards, demandVars>>
  /\ NotCards
  /\ UNCHANGED fetchVars

\* The 500 ms timer of a successful request: card.remove().
CardRemoved ==
  /\ modify.stage = "fading"
  /\ cards' = IF modify.attached THEN RemoveCard(cards, modify.id) ELSE cards
  /\ translations' = IF modify.attached
                      THEN CardDetached(translations, modify.id)
                      ELSE translations
  /\ summary' = IF modify.attached /\ summary.card = modify.id
                THEN DetachSummary(summary)
                ELSE summary
  /\ UNCHANGED created
  /\ modify' = NoModify
  /\ UNCHANGED modifyResult
  /\ NotCards
  /\ UNCHANGED fetchVars

\* ------------------------------------------------------------- SessionSpec
\* Window sizes and batch outcomes of a scan in SessionSpec.
SessionWindows == 1..SessionMaxUnread

SessionOutcomes(n) ==
  {[kind |-> "reject", value |-> <<>>],
   [kind |-> "json", value |-> <<>>],
   [kind |-> "json", value |-> <<ModelEntry(n, 70)>>]}

BatchSettlesInSession ==
  /\ pc = "scoring"
  /\ \E out \in SessionOutcomes(Len(recentEmails)) : PromptSettles(out)

SessionNext ==
  \/ ClickSignIn
  \/ \E answer \in {"error", "noLanguageModel", "token"} : TokenAnswered(answer)
  \/ \E answer \in {"reject", "unavailable", "available"} :
       AiAvailabilitySettles(answer)
  \/ \E answer \in {"reject", "session", "sessionNoSummarizerApi"},
        hasTranslator \in BOOLEAN : AiCreateSettles(answer, hasTranslator)
  \/ \E answer \in {"reject", "unavailable", "available"},
        hasTranslator \in BOOLEAN :
       SummarizerAvailabilitySettles(answer, hasTranslator)
  \/ \E answer \in {"reject", "summarizer"}, hasTranslator \in BOOLEAN :
       SummarizerCreateSettles(answer, hasTranslator)
  \/ ClickSignOut
  \/ \E revoke \in Revocations : RevokeSettles(revoke)
  \/ SignOutDone
  \/ ClickScan
  \/ \E age \in Ages \cup {0} : ProfileLoaded(age)
  \/ SamplesFetched
  \/ ProfileSettles
  \/ ProfileSaved
  \/ WindowEmpty
  \/ WindowFetchFails
  \/ \E n \in SessionWindows : WindowSeeded(n)
  \/ BatchSettlesInSession
  \/ \E id \in 1..MAX_RESULTS : ClickCardButton(id)
  \/ \E answer \in {"2xx", "non2xx", "transport"} : ModifySettles(answer)
  \/ CardRemoved

SessionSpec == SessionInit /\ [][SessionNext]_vars

\* A step of the scan in flight: one of its awaited calls settles.
ScanStep ==
  \/ \E age \in Ages \cup {0} : ProfileLoaded(age)
  \/ SamplesFetched
  \/ ProfileSettles
  \/ ProfileSaved
  \/ WindowEmpty
  \/ WindowFetchFails
  \/ \E n \in SessionWindows : WindowSeeded(n)
  \/ BatchSettlesInSession

\* A signed-in session, before or after its first profile build.
LiveInit ==
  /\ ScanIdle
  /\ accessToken = TRUE
  /\ isSignedIn = TRUE
  /\ aiSession = TRUE
  /\ summarizer = FALSE
  /\ isTranslatorAvailable = FALSE
  /\ showSignedIn = TRUE
  /\ analyzeBtnDisabled = FALSE
  /\ status = "signedin"
  /\ stored \in {NoRecord, Record(Profile(PROFILE_FIELDS))}

LiveNext ==
  \/ ClickScan
  \/ \E age \in Ages \cup {0} : ProfileLoaded(age)
  \/ SamplesFetched
  \/ ProfileSettles
  \/ ProfileSaved
  \/ WindowEmpty
  \/ WindowFetchFails
  \/ \E n \in SessionWindows : WindowSeeded(n)
  \/ BatchSettlesInSession
  \/ ClickSignOut
  \/ \E revoke \in Revocations : RevokeSettles(revoke)
  \/ SignOutDone

\* A scan is in flight.  ScanStep is enabled in exactly these states: every
\* stage of a scan has a step, and no step exists without a scan.
ScanInFlight == pc \notin {"idle", "done"}

\* Scans and a sign-out of a signed-in session when every external call
\* settles: the call a scan awaits (weak fairness of ScanStep, written out
\* with ScanInFlight for its enabling condition), the background's revoke
\* request, and the delivery of the background's answer.
LiveSpec ==
  /\ LiveInit
  /\ [][LiveNext]_vars
  /\ ([]<>(~ScanInFlight) \/ []<><<ScanStep>>_vars)
  /\ WF_vars(\E revoke \in Revocations : RevokeSettles(revoke))
  /\ WF_vars(SignOutDone)

\* ------------------------------------------------------ the cards' handlers
\* What the on-demand handlers leave alone: they work on the card's elements
\* and on state.translators only.
\* Variant: a handler stores what it displays in the accumulated array.
OnDemandFrameStoresPoints ==
  /\ processedEmails' =
       [k \in 1..Len(processedEmails) |->
          [processedEmails[k] EXCEPT
             !.analysisData.summaryPoints = <<"detailed point">>]]
  /\ UNCHANGED <<pc, recentEmails, i, sinkCalls, promptCalls,
                 delivered, settled, omitted, lateNamed, firstSink, batchesSent,
                 unmatchedSeen, accessToken, isSignedIn, aiSession, summarizer,
                 isTranslatorAvailable, signVars, profileVars,
                 analyzeBtnDisabled, status, listMsg, promptAlive, modify,
                 windowFetch, signedOutDuring, modifyResult>>
  /\ UNCHANGED fetchVars

OnDemandFrame ==
  /\ UNCHANGED <<pc, recentEmails, processedEmails, i, sinkCalls, promptCalls,
                 delivered, settled, omitted, lateNamed, firstSink, batchesSent,
                 unmatchedSeen, accessToken, isSignedIn, aiSession, summarizer,
                 isTranslatorAvailable, signVars, profileVars,
                 analyzeBtnDisabled, status, listMsg, promptAlive, modify,
                 windowFetch, signedOutDuring, modifyResult>>
  /\ UNCHANGED fetchVars

\* listItems.forEach of the request's start
SaveOriginals(items) == [m \in 1..Len(items) |-> SaveOriginal(items[m])]

\* listItems.forEach of the catch
RestoreAll(items) == [m \in 1..Len(items) |-> Restore(items[m])]

\* translatedTexts.forEach
ShowAllTranslated(lang, items) ==
  [m \in 1..Len(items) |-> ShowTranslated(lang, items[m])]

\* email.snippet || "": in the model the message with id 2 has no snippet.
HasSnippet(id) == id # 2

\* The select of the card of message id changes to lang: the synchronous part
\* of handleTranslationRequest, up to its first await.
SelectLanguage(id, lang) ==
  /\ CardAt(id) > 0
  /\ Len(translations) < MaxRequests
  /\ LET k == CardAt(id)
     IN  /\ cards[k].select \in {""} \cup LANGS
         /\ cards[k].select # lang
         /\ cards' = [cards EXCEPT ![k].items = SaveOriginals(@),
                                   ![k].select = "status"]
         /\ translations' =
              Append(translations,
                     [card |-> id, lang |-> lang,
                      stage |-> IF CacheKey(lang) \in translators
                                THEN "translate" ELSE "availability",
                      live |-> TRUE, items |-> TRUE,
                      some |-> Len(cards[k].items) > 0])
  /\ UNCHANGED <<translators, summary, created>>
  /\ OnDemandFrame

\* The catch of handleTranslationRequest for request j.
TranslationFails(j) ==
  LET t == translations[j]
      k == CardAt(t.card)
  IN  /\ cards' = IF t.live
                  THEN [cards EXCEPT
                          ![k].select = "failed",
                          ![k].items = IF t.items THEN RestoreAll(@)
                                       ELSE @]
                  ELSE cards
      /\ translations' = Without(translations, j)
      /\ UNCHANGED <<translators, summary, created>>

\* Translator.availability() settles for request j.
TranslatorAvailabilitySettles(j, answer) ==
  /\ j \in 1..Len(translations)
  /\ translations[j].stage = "availability"
  /\ IF answer = "reject"
     THEN TranslationFails(j)
     ELSE /\ translations' = [translations EXCEPT ![j].stage = "create"]
          /\ UNCHANGED <<cards, translators, summary, created>>
  /\ OnDemandFrame

\* Translator.create() settles for request j: the instance is cached and the
\* translate call of every captured item is issued.
TranslatorCreateSettles(j, answer) ==
  /\ j \in 1..Len(translations)
  /\ translations[j].stage = "create"
  /\ IF answer = "reject"
     THEN TranslationFails(j)
     ELSE /\ translations' = [translations EXCEPT ![j].stage = "translate"]
          /\ translators' = translators \cup {CacheKey(translations[j].lang)}
          /\ created' = [created EXCEPT ![translations[j].lang] = @ + 1]
          /\ UNCHANGED <<cards, summary>>
  /\ OnDemandFrame

\* Promise.all of request j's translate calls settles: every call resolved,
\* or one of them rejected.
TranslateSettles(j, answer) ==
  /\ j \in 1..Len(translations)
  /\ translations[j].stage = "translate"
  /\ answer = "all" \/ translations[j].some
  /\ IF answer = "all"
     THEN LET t == translations[j]
              k == CardAt(t.card)
          IN  /\ cards' =
                   IF t.live
                   THEN [cards EXCEPT
                           ![k].select = t.lang,
                           ![k].items =
                              IF t.items
                              THEN ShowAllTranslated(t.lang, @)
                              ELSE @]
                   ELSE cards
              /\ translations' = Without(translations, j)
              /\ UNCHANGED <<translators, summary, created>>
     ELSE TranslationFails(j)
  /\ OnDemandFrame

\* The 3000 ms timer of a failed request puts the select back, unselected.
TranslationTimer(id) ==
  /\ CardAt(id) > 0
  /\ cards[CardAt(id)].select = "failed"
  /\ cards' = [cards EXCEPT ![CardAt(id)].select = ""]
  /\ UNCHANGED <<translators, translations, summary, created>>
  /\ OnDemandFrame

\* The catch of the detailed-summary handler: innerHTML += builds the whole
\* list anew, text and data attributes kept, and adds the error item.
SummaryCatch(id, live) ==
  /\ cards' = IF live
              THEN [cards EXCEPT
                      ![CardAt(id)].items =
                         Append(@, Item(Text("en", "Could not generate detailed summary."))),
                      ![CardAt(id)].button = "retry"]
              ELSE cards
  /\ translations' = IF live THEN ListReplaced(translations, id)
                     ELSE translations
  /\ summary' = NoSummary

\* The detailed-summary button of the card of message id.
ClickDetailedSummary(id) ==
  /\ CardAt(id) > 0
  /\ summary.stage = "none"
  /\ LET k == CardAt(id)
     IN  /\ cards[k].button \in {"show", "retry"}
         /\ Len(cards[k].items) < MaxItems
         /\ IF ~summarizer
            THEN /\ cards' = [cards EXCEPT
                                ![k].items = <<Item(Text("en", "Summarizer API is not available."))>>,
                                ![k].button = "gone"]
                 /\ translations' = ListReplaced(translations, id)
                 /\ UNCHANGED summary
            ELSE IF ~HasSnippet(id)
                 THEN SummaryCatch(id, TRUE)
                 ELSE /\ cards' = [cards EXCEPT ![k].button = "busy"]
                      /\ summary' = [card |-> id, stage |-> "opening",
                                     live |-> TRUE]
                      /\ UNCHANGED translations
  /\ UNCHANGED <<translators, created>>
  /\ OnDemandFrame

\* summarizeStreaming settles: the list becomes one empty item.
SummaryOpens(answer) ==
  /\ summary.stage = "opening"
  /\ IF answer = "reject"
     THEN SummaryCatch(summary.card, summary.live)
     ELSE /\ cards' = IF summary.live
                      THEN [cards EXCEPT
                              ![CardAt(summary.card)].items = <<Item(NoText)>>]
                      ELSE cards
          /\ translations' = IF summary.live
                             THEN ListReplaced(translations, summary.card)
                             ELSE translations
          /\ summary' = [summary EXCEPT !.stage = "streaming"]
  /\ UNCHANGED <<translators, created>>
  /\ OnDemandFrame

\* A chunk of the stream: streamingLi.textContent = fullSummary.
ChunkArrives ==
  /\ summary.stage = "streaming"
  /\ cards' = IF summary.live
              THEN [cards EXCEPT
                      ![CardAt(summary.card)].items[1].text =
                         Text("en", "fullSummary")]
              ELSE cards
  /\ UNCHANGED <<translators, translations, summary, created>>
  /\ OnDemandFrame

\* The stream ends: the text received so far becomes the list's points; or
\* the stream fails.
SummaryEnds(answer) ==
  /\ summary.stage = "streaming"
  /\ IF answer = "reject"
     THEN SummaryCatch(summary.card, summary.live)
     ELSE /\ cards' =
               IF summary.live
               THEN LET k == CardAt(summary.card)
                    IN  [cards EXCEPT
                           ![k].items =
                              IF cards[k].items[1].text.src = "" THEN <<>>
                              ELSE <<Item(Text("en", "detailed point"))>>,
                           ![k].button = "gone"]
               ELSE cards
          /\ translations' = IF summary.live
                             THEN ListReplaced(translations, summary.card)
                             ELSE translations
          /\ summary' = NoSummary
  /\ UNCHANGED <<translators, created>>
  /\ OnDemandFrame

\* --------------------------------------------------------------- CardSpec
\* A signed-in session with the Translator API, with or without a summarizer.
CardInit ==
  /\ ScanIdle
  /\ accessToken = TRUE
  /\ isSignedIn = TRUE
  /\ aiSession = TRUE
  /\ summarizer \in BOOLEAN
  /\ isTranslatorAvailable = TRUE
  /\ showSignedIn = TRUE
  /\ analyzeBtnDisabled = FALSE
  /\ status = "signedin"
  /\ stored = Record(Profile(PROFILE_FIELDS))

CardWindows == 1..CardMaxUnread

CardOutcomes ==
  {[kind |-> "reject", value |-> <<>>],
   [kind |-> "json", value |-> <<ModelEntry(1, 70)>>]}

BatchSettlesInCards ==
  /\ pc = "scoring"
  /\ \E out \in CardOutcomes : PromptSettles(out)

CardNext ==
  \/ StartScan
  \/ \E n \in CardWindows : WindowSeeded(n)
  \/ BatchSettlesInCards
  \/ \E id \in CardWindows, lang \in LANGS : SelectLanguage(id, lang)
  \/ \E j \in 1..MaxRequests, answer \in {"available", "downloadable", "reject"} :
       TranslatorAvailabilitySettles(j, answer)
  \/ \E j \in 1..MaxRequests, answer \in {"translator", "reject"} :
       TranslatorCreateSettles(j, answer)
  \/ \E j \in 1..MaxRequests, answer \in {"all", "oneRejected"} :
       TranslateSettles(j, answer)
  \/ \E id \in CardWindows : TranslationTimer(id)
  \/ \E id \in CardWindows : ClickDetailedSummary(id)
  \/ \E answer \in {"stream", "reject"} : SummaryOpens(answer)
  \/ ChunkArrives
  \/ \E answer \in {"end", "reject"} : SummaryEnds(answer)

CardSpec == CardInit /\ [][CardNext]_vars

\* ------------------------------------------------------------------- claims
N == Len(recentEmails)

\* ceil(n / 5)
Ceil5(n) == (n + 4) \div 5

\* The AnalysisResult a collection holds for the message with this id.
ResultOf(emails, id) == (CHOOSE e \in Range(emails) : e.id = id).analysisData

\* The ids of the k-th batch (k from 0): fetched messages 5k+1 .. 5k+5.
BatchIds(k) == {id \in Range(recentEmails) : 5 * k < id /\ id <= 5 * k + 5}

\* This step settles a batch with the given outcome.
Settles(kind) ==
  /\ Len(settled') = Len(settled) + 1
  /\ settled'[Len(settled')] = kind

\* C1: a scan over an empty window calls the sink exactly once, with an empty
\* collection, and has issued no inference call when it returns.
C1_EmptyWindow ==
  (pc = "done" /\ N = 0) =>
     /\ sinkCalls = 1
     /\ delivered = <<>>
     /\ promptCalls = 0

C1_Witness == pc = "done" /\ N = 0 /\ sinkCalls = 1 /\ cards = <<>>

\* C2: for a window of n > 0 messages the sink has been called once for the
\* seed and once per settled batch, 1 + ceil(n/5) times when the scan returns
\* (3 for n = 7), whatever batches succeeded or failed, and every call carried
\* all n window messages.
C2_SinkCount ==
  N > 0 =>
     /\ sinkCalls = 1 + Len(settled)
     /\ pc = "done" => sinkCalls = 1 + Ceil5(N)
     /\ (pc = "done" /\ N = 7) => sinkCalls = 3
     /\ Len(delivered) = N
     /\ Range(delivered) = Range(recentEmails)

C2_Witness ==
  /\ pc = "done"
  /\ N = 7
  /\ sinkCalls = 3
  /\ settled = <<"ok", "fail">>
  /\ Len(delivered) = 7

C4_FailureDoesNotAbort ==
  N > 0 =>
     /\ pc = "scoring" => (promptCalls = Len(settled) + 1 /\ 5 * Len(settled) < N)
     /\ pc = "done" => (promptCalls = Ceil5(N) /\ Len(settled) = Ceil5(N))
     /\ pc \in {"scoring", "done"}

C4_Witness ==
  /\ pc = "done"
  /\ settled = <<"fail", "ok">>
  /\ promptCalls = 2
  /\ \E id \in BatchIds(1) : ResultOf(processedEmails, id).score = 70

\* C5: on a successful batch only a message that is still pending is
\* overwritten: a message already resolved is not modified.
C5_OnlyPendingOverwritten ==
  [][Settles("ok") =>
       \A id \in Range(recentEmails) :
          ResultOf(processedEmails, id).score # -1 =>
             ResultOf(processedEmails', id) = ResultOf(processedEmails, id)]_vars

\* C6 as stated: a pending message its own successful batch left out keeps
\* score -1 in every later delivery.
C6_OmittedStaysPending ==
  \A id \in omitted : ResultOf(processedEmails, id).score = -1

\* C6 as amended: a pending message its own successful batch left out keeps
\* score -1 in every later delivery for as long as no other batch's output
\* names its id.
C6_OmittedStaysPendingUntilNamed ==
  \A id \in omitted \ lateNamed : ResultOf(processedEmails, id) = Placeholder(id)

C6_Witness ==
  /\ pc = "done"
  /\ settled = <<"ok", "ok">>
  /\ lateNamed # {}
  /\ \E id \in (omitted \ lateNamed) \cap BatchIds(0) :
        ResultOf(processedEmails, id).score = -1

\* C7: once its batch's inference call has settled, no message is left with
\* the pending placeholder.
C7_SettledMeansResolved ==
  \A id \in Range(recentEmails) :
     (\E k \in 0..(Len(settled) - 1) : id \in BatchIds(k)) =>
        ResultOf(processedEmails, id) # Placeholder(id)

\* C8: the accumulated collection is in fetch order in every delivery and
\* the sink leaves it in that order.
C8_OrderStable ==
  sinkCalls > 0 =>
     /\ delivered = recentEmails
     /\ IdsOf(processedEmails) = recentEmails

\* C9: every score in a delivered collection is -1 or an integer in 0..100.
C9_ScoreRange ==
  \A k \in 1..Len(processedEmails) :
     processedEmails[k].analysisData.score \in {-1} \cup (0..100)

\* C10: the cards are in descending score order and every pending placeholder
\* comes after every scored message.
C10_PresentedDescending ==
  \A a, b \in 1..Len(cards) :
     a < b =>
        /\ cards[a].score >= cards[b].score
        /\ ~(ResultOf(processedEmails, cards[a].emailId) = Placeholder(cards[a].emailId)
             /\ ResultOf(processedEmails, cards[b].emailId) # Placeholder(cards[b].emailId))

\* ------------------------------------------------------------ fetchMessages
\* Variant: windows of nine requests.
ConcurrencyNine == 8 + 1

\* The detail requests of fetchMessages go out in windows of this size.
CONCURRENCY == 8

\* A message resource: it carries the id of its ref.
Message(ref) == [id |-> ref, genuine |-> TRUE]

\* The JSON body of an HTTP error answer: {error: {...}}, no id.
ErrorBody == [id |-> 0, genuine |-> FALSE]

\* fetch(...).then((r) => r.json()): the body, whatever the status.
DetailBody(ref, answer) == IF answer = "message" THEN Message(ref) ELSE ErrorBody

\* The refs of the window starting at index from.
WindowRefs(refs, from) == Range(Slice(refs, from, from + CONCURRENCY))

NotFetch == UNCHANGED panelVars

\* return of fetchMessages
FetchReturns(result) ==
  /\ fPc' = "returned"
  /\ fResult' = result
  /\ fPending' = {}
  /\ UNCHANGED <<fRefs, fWindow, fBodies, fDetails>>

\* fetchMessages(query, maxResults) is called: without a token it returns []
\* at once, else the list request goes out.
CallFetchMessages ==
  /\ fPc \in {"idle", "returned"}
  /\ fRefs' = <<>>
  /\ fWindow' = 0
  /\ fPending' = {}
  /\ fBodies' = <<>>
  /\ fDetails' = <<>>
  /\ fResult' = <<>>
  /\ fPc' = IF accessToken THEN "list" ELSE "returned"
  /\ NotFetch

\* The list request ends: in transport, with a non-2xx answer, with an answer
\* without messages, or with n refs, whose first window of detail requests
\* goes out.
ListSettles(answer, n) ==
  /\ fPc = "list"
  /\ IF answer = "refs"
     THEN /\ fRefs' = [k \in 1..n |-> k]
          /\ fWindow' = 0
          /\ fPending' = WindowRefs(fRefs', 0)
          /\ fPc' = "details"
          /\ UNCHANGED <<fBodies, fDetails, fResult>>
     ELSE /\ n = 1
          /\ FetchReturns(<<>>)
  /\ NotFetch

\* One detail request of the window ends: in transport (Promise.all rejects
\* and the catch returns [], the other requests of the window still in
\* flight), or with a body.  The last body of a window completes it: its
\* bodies join details in ref order, and the next window goes out or details
\* is returned.  A request that ends after the call has returned changes
\* nothing.
DetailSettles(ref, answer) ==
  /\ fPc \in {"details", "returned"}
  /\ ref \in fPending
  /\ IF fPc = "returned" \/ answer = "reject"
     THEN /\ fPending' = fPending \ {ref}
          /\ fPc' = "returned"
          /\ fResult' = IF fPc = "returned" THEN fResult ELSE <<>>
          /\ UNCHANGED <<fRefs, fWindow, fBodies, fDetails>>
     ELSE LET bodies == (ref :> DetailBody(ref, answer)) @@ fBodies
              window == Slice(fRefs, fWindow, fWindow + CONCURRENCY)
              details == fDetails \o [k \in 1..Len(window) |-> bodies[window[k]]]
              next == fWindow + CONCURRENCY
          IN  IF fPending # {ref}
              THEN /\ fBodies' = bodies
                   /\ fPending' = fPending \ {ref}
                   /\ UNCHANGED <<fPc, fRefs, fWindow, fDetails, fResult>>
              ELSE IF next < Len(fRefs)
              THEN /\ fDetails' = details
                   /\ fWindow' = next
                   /\ fPending' = WindowRefs(fRefs, next)
                   /\ fBodies' = <<>>
                   /\ UNCHANGED <<fPc, fRefs, fResult>>
              ELSE /\ fDetails' = details
                   /\ fPc' = "returned"
                   /\ fResult' = details
                   /\ fPending' = {}
                   /\ fBodies' = <<>>
                   /\ UNCHANGED <<fRefs, fWindow>>
  /\ NotFetch

FetchNext ==
  \/ CallFetchMessages
  \/ \E answer \in {"reject", "non2xx", "noMessages", "refs"},
        n \in 1..FetchMaxRefs : ListSettles(answer, n)
  \/ \E ref \in 1..FetchMaxRefs, answer \in {"message", "errorBody", "reject"} :
       DetailSettles(ref, answer)

\* One fetchMessages call after another in a signed-in session.
FetchSpec == Init /\ [][FetchNext]_vars

\* ------------------------------------------------- claims on the session
\* The scan has taken its decision on the stored profile.
Decided == pc \notin {"idle", "loading"}

\* The record the scan read holds both keys.
RecordPresent == data.userProfile.has /\ data.lastAnalysis

FourFields == {"highPrioritySenders", "highPriorityKeywords",
               "lowPrioritySenders", "lowPriorityKeywords"}

\* C11: a scan goes on with the stored profile, without calling the builder,
\* exactly when the record is present and its age is at most 24 hours; it
\* calls the builder when the record is absent or older.
C11_StoredProfileUsedWhenFresh ==
  /\ Decided =>
       (builderCalled <=> ~(RecordPresent /\ loadAge <= 24 * 60 * 60 * 1000))
  /\ ~builderCalled => pc \notin {"sampling", "profiling", "saving"}

\* A record one millisecond old is used as it is.
C11_Witness ==
  /\ pc = "fetching"
  /\ RecordPresent
  /\ loadAge = 1
  /\ ~builderCalled

\* C12 as stated: a record whose age is exactly the interval is not fresh
\* and the scan rebuilds the profile.
C12_FreshOnlyBelowInterval ==
  (Decided /\ RecordPresent /\ loadAge = 24 * 60 * 60 * 1000) => builderCalled

\* C12 amended: a record whose age is exactly the interval is still fresh:
\* the scan uses it and does not call the builder.
C12_FreshUpToInterval ==
  (Decided /\ RecordPresent /\ loadAge = 24 * 60 * 60 * 1000) => ~builderCalled

\* A record exactly 24 hours old goes to scoring unchanged.
C12_Witness ==
  /\ pc = "fetching"
  /\ RecordPresent
  /\ loadAge = 24 * 60 * 60 * 1000
  /\ userProfile = data.userProfile

C15_WindowFetchFailureAborts ==
  windowFetch = "failed" =>
    /\ sinkCalls = 0
    /\ listMsg # "caughtup"
    /\ status # "complete"

\* C16: no modifyEmail call rejects.
C16_ModifyNeverRejects == modifyResult # "rejected"

\* C17: the scan button is disabled for as long as a scan is in flight.
C17_TriggerDisabledInFlight ==
  pc \notin {"idle", "done"} => analyzeBtnDisabled

\* C18: once a sign-out has completed during a scan, the list stays empty.
C18_NoDeliveryAfterSignOut == signedOutDuring => cards = <<>>

\* C19: no record in storage was written by a build during which a sign-out
\* completed.
C19_NoPersistAfterSignOut == stored.userProfile.has => ~storedStale

\* C20: the step at which a sign-in fails shows the auth error and leaves
\* the session fully cleared.
C20_FailedSignInCleared ==
  [][(signInResult = "pending" /\ signInResult' = "failed") =>
       /\ status' = "autherror"
       /\ ~accessToken'
       /\ ~isSignedIn'
       /\ ~aiSession'
       /\ ~summarizer'
       /\ ~isTranslatorAvailable'
       /\ translators' = {}
       /\ signInPc' = "idle"]_vars

\* A sign-in has failed and its handler has returned.
C20_Witness ==
  /\ signInResult = "failed"
  /\ status = "autherror"
  /\ ~accessToken
  /\ ~aiSession

\* ------------------------------------------- claims on the cards' handlers
\* C21: within one session Translator.create produces at most one translator
\* for a pair ("en", targetLang), however many requests for that language are
\* in flight at once.
C21_OneTranslatorPerPair == \A lang \in LANGS : created[lang] <= 1

\* C22: when the translation request of a displayed card fails, every item
\* of the card's summary list shows untranslated text once the failure has
\* been handled.
C22_FailureRestoresOriginals ==
  [][\A k \in 1..Len(cards) :
       (/\ Len(cards') = Len(cards)
        /\ cards[k].select = "status"
        /\ cards'[k].select = "failed")
       => \A m \in 1..Len(cards'[k].items) :
            cards'[k].items[m].text.lang = "en"]_vars

\* C23: a step of a detailed-summary or translation handler, that is a step
\* which is none of the scan's (no sink call, the scan stays where it is),
\* changes neither the scan's arrays nor the record under the profile keys.
C23_OnDemandLeavesScanState ==
  [][(pc' = pc /\ sinkCalls' = sinkCalls)
     => /\ processedEmails' = processedEmails
        /\ recentEmails' = recentEmails
        /\ i' = i
        /\ stored' = stored]_vars

\* A scan is awaiting a batch while a summary streams into a displayed card
\* and a translation request of a displayed card awaits its translator.
C23_Witness ==
  /\ pc = "scoring"
  /\ processedEmails # <<>>
  /\ stored = Record(Profile(PROFILE_FIELDS))
  /\ summary.stage = "streaming"
  /\ summary.live
  /\ \E j \in 1..Len(translations) :
       translations[j].live /\ translations[j].stage = "create"

\* ---------------------------------------------------- claims on the batches
\* Position of the message with this id in the accumulated array.
PlaceOf(id) == FindIndex(processedEmails, id)

\* The ids 5k+1 .. min(5k+5, n) of the fetched window, in fetch order.
FetchSlice(k) ==
  [j \in 1..Min(5, N - 5 * k) |-> recentEmails[5 * k + j]]

\* C24: the first delivery of a non-empty scan is made before any prompt is
\* issued, and every window message in it carries the pending placeholder.
C24_FirstSinkAllPending ==
  Len(firstSink.emails) > 0 =>
    /\ firstSink.prompts = 0
    /\ IdsOf(firstSink.emails) = recentEmails
    /\ \A k \in 1..Len(firstSink.emails) :
         firstSink.emails[k].analysisData =
           [id |-> firstSink.emails[k].id, score |-> -1,
            summarizedTitle |-> "Analyzing...", summaryPoints |-> <<>>,
            positiveReasons |-> <<>>, negativeReasons |-> <<>>]

\* The first delivery of a full window is behind, its first prompt in flight.
C24_Witness ==
  /\ pc = "scoring"
  /\ N = 7
  /\ Len(firstSink.emails) = 7
  /\ promptCalls = 1
  /\ settled = <<>>

\* C25: at most one prompt is in flight; the prompt of batch k+1 is issued
\* once batch k has settled and has been delivered, so the k-th delivery
\* after the seed is the one of batch k.
C25_OneInferenceInFlight ==
  N > 0 =>
    /\ promptCalls - Len(settled) = (IF pc = "scoring" THEN 1 ELSE 0)
    /\ Len(batchesSent) = promptCalls
    /\ sinkCalls = 1 + Len(settled)
    /\ i = 5 * Len(settled)

\* The second batch's prompt is in flight after the first batch's delivery.
C25_Witness ==
  /\ pc = "scoring"
  /\ promptCalls = 2
  /\ Len(settled) = 1
  /\ sinkCalls = 2

\* C26: the k-th prompt carries the fetched messages 5k+1 .. min(5k+5, n) in
\* fetch order, whatever order the sink's sort has given the accumulated
\* array, and a finished scan has sent every window message exactly once.
C26_BatchesPartitionWindow ==
  /\ \A k \in 1..Len(batchesSent) : batchesSent[k] = FetchSlice(k - 1)
  /\ (pc = "done" /\ N > 0) => Len(batchesSent) = Ceil5(N)

\* The second batch was cut after the sort had reordered the array.
C26_Witness ==
  /\ pc = "scoring"
  /\ Len(batchesSent) = 2
  /\ IdsOf(processedEmails) # recentEmails

\* C27: the accumulated array and every delivery hold exactly the ids of the
\* fetched window, once each; an output entry with another id adds nothing.
C27_IdSetFixed ==
  pc \in {"scoring", "done"} =>
    /\ Len(processedEmails) = N
    /\ Range(IdsOf(processedEmails)) = Range(recentEmails)
    /\ Len(delivered) = N
    /\ Range(delivered) = Range(recentEmails)

\* A finished scan of a full window during which the service named an id
\* that is in no window message.
C27_Witness ==
  /\ pc = "done"
  /\ N = 7
  /\ unmatchedSeen

\* C28: the sort keeps messages of equal score in the order they were handed
\* over, and sorting the array again leaves it as it is.
C28_SortStable ==
  /\ \A a, b \in 1..Len(delivered) :
       (/\ a < b
        /\ PlaceOf(delivered[a]) > 0
        /\ PlaceOf(delivered[b]) > 0
        /\ ScoreOf(delivered[a]) = ScoreOf(delivered[b]))
         => PlaceOf(delivered[a]) < PlaceOf(delivered[b])
  /\ renderEmails(processedEmails).emails = processedEmails

\* Two messages scored alike, in different batches, after three deliveries.
C28_Witness ==
  /\ sinkCalls = 3
  /\ \E a \in BatchIds(0), b \in BatchIds(1) :
       /\ ScoreOf(a) = 70
       /\ ScoreOf(b) = 70

\* C29: storage holds both keys or neither.
C29_KeysAsUnit == stored.userProfile.has <=> stored.lastAnalysis

\* Both keys are back in storage, written by the build of a scan that a
\* sign-out (which removed both) had overtaken.
C29_Witness ==
  /\ stored.userProfile.has
  /\ stored.lastAnalysis
  /\ signedOutDuring

\* C30: a fetchMessages call that returns a non-empty list returns one entry
\* per listed ref, in ref order, each the message with that ref's id.
C30_FetchAllOrNothing ==
  (fPc = "returned" /\ Len(fResult) > 0) =>
    /\ Len(fResult) = Len(fRefs)
    /\ \A k \in 1..Len(fResult) :
         fResult[k].genuine /\ fResult[k].id = fRefs[k]

\* ------------------------------------------------- claims of the last part
\* C31: within one fetchMessages call at most 8 detail requests are in flight
\* at any time, and the requests in flight all belong to one window of 8
\* consecutive refs: no request of a window goes out while one of the window
\* before it is in flight.
C31_WindowedDetailFetches ==
  /\ Cardinality(fPending) <= 8
  /\ \A r1, r2 \in fPending : (r1 - 1) \div 8 = (r2 - 1) \div 8

\* The second window is in flight, the eight bodies of the first collected.
C31_Witness ==
  /\ fPc = "details"
  /\ Len(fRefs) > 8
  /\ Len(fDetails) = 8
  /\ fPending = {9}

\* C32: when a scan has ended with the status "Analysis complete. All emails
\* have been processed and sorted.", no message of the accumulated array is
\* a pending placeholder (score -1).
C32_CompleteMeansNoPending ==
  (pc = "done" /\ status = "complete") =>
    \A k \in 1..Len(processedEmails) :
       processedEmails[k].analysisData.score # -1

\* C33: a sink delivery of the scan that follows the successful mark-as-read
\* or delete of a displayed card builds no card for that message id.
C33_HandledNotPresentedAgain ==
  [][(/\ pc = "scoring"
      /\ modify.stage = "fading"
      /\ modify.attached
      /\ sinkCalls' > sinkCalls)
     => \A k \in 1..Len(cards') : cards'[k].emailId # modify.id]_vars

\* The state handleSignOut's callback leaves: nothing held, nothing stored.
Cleared ==
  /\ ~accessToken
  /\ ~isSignedIn
  /\ ~aiSession
  /\ ~summarizer
  /\ translators = {}
  /\ stored = NoRecord

\* C34: a scan that has started ends, and when it ends the scan button is
\* enabled again, provided every call the scan awaits settles.
C34_ScanTerminates == ScanInFlight ~> (pc = "done" /\ ~analyzeBtnDisabled)

\* A scan has ended in the catch after its profile prompt failed, the button
\* enabled.
C34_Witness ==
  /\ pc = "done"
  /\ status = "error"
  /\ profileOut \in {"reject", "nonjson"}
  /\ ~analyzeBtnDisabled

\* C35: a sign-out requested while a token is held leads to the cleared
\* session, however the revocation ends.
C35_SignOutClears == (signOutPending = "revoking") ~> Cleared

\* The callback of a sign-out has run.
C35_Witness ==
  /\ status = "signedout"
  /\ signOutPending = "none"
  /\ Cleared

====
